---- MODULE Spec2Model ----
(***************************************************************************)
(* Feed the Kraken: the session aggregate (GameState), the session         *)
(* registry (GameManager) and the turn/phase controller (TurnManager),     *)
(* driven by slash commands, interactive actions, modal submissions and    *)
(* timers.  One Slack channel is modelled.  User identities are opaque     *)
(* strings in the source; here they are numbered by the order in which     *)
(* they join (the host is user 1), 0 stands for null/undefined.            *)
(***************************************************************************)
EXTENDS Integers, Sequences, FiniteSets, TLC

VARIABLES
    games,          \* GameManager.games: channel -> GameState
    turnManagers,   \* GameManager.turnManagers: channel -> TurnManager
    mutinyTimer,    \* the timer scheduled by mutinyPhase is pending
    votingTimers,   \* number of pending timers scheduled by votingPhase
    posted,         \* interactive elements delivered to users so far
    trace,          \* internal calls made by the last handler that had an effect
    staleClicks,    \* effective clicks so far on elements of a phase that is over
    mutinyRounds,   \* entries into the MUTINY phase so far
    electedInTurn,  \* the turn of the latest successful mutiny (0: none yet)
    awaiting        \* users whose view submission is suspended at its first await

vars == <<games, turnManagers, mutinyTimer, votingTimers, posted, trace, staleClicks,
          mutinyRounds, electedInTurn, awaiting>>

\* ---------------------------------------------------------------- bounds

MaxPlayers == 5        \* users that exist (and may join)
MaxTurn == 2           \* the turn counter is capped here
MaxVotingTimers == 2   \* pending discussion timers are capped here
MaxRolePlayers == 12   \* largest table checked for the role distribution
MaxMutinyRounds == 3   \* entries into the MUTINY phase are capped here
MaxStaleClicks == 1    \* clicks on elements of a phase that is over are capped here
MaxDistance == 2       \* the ship stays within this many moves of where it set out
MaxChart == 11          \* the chart spans 0..MaxChart by -MaxChart..MaxChart

\* ------------------------------------------------------ program constants

MinPlayers == 5
DefaultGuns == 3
CultGoal == 10         \* the cult wins once the ship's y coordinate reaches this

Channel == "C"
NoUser == 0
Users == 1..MaxPlayers

NoMove == <<0, 0>>
North == <<0, 1>>
South == <<0, -1>>
East == <<1, 0>>
West == <<-1, 0>>
allDirections == <<North, South, East, West>>
Directions == {allDirections[i] : i \in 1..Len(allDirections)}

phaseOrder == <<"NAVIGATION_SELECTION", "MUTINY", "NAVIGATION", "VOTING">>

\* ------------------------------------------------------------- utilities

Range(s) == {s[i] : i \in 1..Len(s)}

RECURSIVE SumOver(_, _)
SumOver(f, S) ==
    IF S = {} THEN 0
    ELSE LET x == CHOOSE y \in S : TRUE IN f[x] + SumOver(f, S \ {x})

RECURSIVE SelectSeq2(_, _)
\* Array.prototype.filter for a sequence of user ids and a set to keep
SelectSeq2(s, keep) ==
    IF s = <<>> THEN <<>>
    ELSE IF Head(s) \in keep THEN <<Head(s)>> \o SelectSeq2(Tail(s), keep)
    ELSE SelectSeq2(Tail(s), keep)

\* Array.prototype.findIndex, 0-based, -1 when absent
FindIndex(s, x) ==
    IF x \in Range(s) THEN (CHOOSE i \in 1..Len(s) : s[i] = x) - 1 ELSE -1

\* ------------------------------------------------------------- GameState

NewGameState(hostId) ==
    [ hostId |-> hostId,
      players |-> <<>>,
      role |-> <<>>,
      isAlive |-> <<>>,
      guns |-> <<>>,
      status |-> "WAITING",
      currentTurn |-> 0,
      currentPhase |-> "LOBBY",
      captain |-> NoUser,
      lieutenant |-> NoUser,
      navigator |-> NoUser,
      shipPosition |-> <<0, 0>>,
      cultLeader |-> NoUser ]

addPlayerOk(g, userId) == userId \notin Range(g.players) /\ g.status = "WAITING"

\* addPlayer without the check for an identity already present: the record of
\* that identity is written anew
addPlayerAgain(g, userId) ==
    IF g.status # "WAITING" THEN g
    ELSE [g EXCEPT !.players = IF userId \in Range(@) THEN @ ELSE Append(@, userId),
                   !.role = (userId :> "null") @@ @,
                   !.isAlive = (userId :> TRUE) @@ @,
                   !.guns = (userId :> DefaultGuns) @@ @]

\* addPlayer without the check of the status
addPlayerLate(g, userId) ==
    IF userId \in Range(g.players) THEN g
    ELSE [g EXCEPT !.players = Append(@, userId),
                   !.role = @ @@ (userId :> "null"),
                   !.isAlive = @ @@ (userId :> TRUE),
                   !.guns = @ @@ (userId :> DefaultGuns)]

addPlayer(g, userId) ==
    IF userId \in Range(g.players) THEN g
    ELSE IF g.status # "WAITING" THEN g
    ELSE [g EXCEPT !.players = Append(@, userId),
                   !.role = @ @@ (userId :> "null"),
                   !.isAlive = @ @@ (userId :> TRUE),
                   !.guns = @ @@ (userId :> DefaultGuns)]

getAlivePlayers(g) == SelectSeq2(g.players, {u \in Range(g.players) : g.isAlive[u]})

getPlayerCount(g) == Len(g.players)

isHost(g, userId) == g.hostId = userId

\* canStart with the threshold one lower
canStartEarly(g) == Len(g.players) >= MinPlayers - 1 /\ g.status = "WAITING"

\* a check of the head count alone
canStartAnyStatus(g) == Len(g.players) >= MinPlayers

canStart(g) == Len(g.players) >= MinPlayers /\ g.status = "WAITING"

\* Fisher-Yates as the source runs it: i from length-1 down to 1 (0-based),
\* j = floor(random * (i + 1)) is picks[i], swap positions i and j
RECURSIVE shuffleFrom(_, _, _)
shuffleFrom(arr, picks, i) ==
    IF i < 1 THEN arr
    ELSE LET j == picks[i]
             swapped == [arr EXCEPT ![i + 1] = arr[j + 1], ![j + 1] = arr[i + 1]]
         IN shuffleFrom(swapped, picks, i - 1)

shuffle(arr, picks) == shuffleFrom(arr, picks, Len(arr) - 1)

pirateCount(playerCount) ==
    IF playerCount = 5 THEN 2
    ELSE IF playerCount = 6 THEN 2
    ELSE IF playerCount = 7 THEN 2
    ELSE IF playerCount = 8 THEN 3
    ELSE 3

cultLeaderCount(playerCount) == 1

\* a table that seats the second cultist one player too early
cultistCountEarly(playerCount) ==
    IF playerCount = 5 THEN 0
    ELSE IF playerCount = 6 THEN 0
    ELSE IF playerCount = 7 THEN 1
    ELSE 2

cultistCount(playerCount) ==
    IF playerCount = 5 THEN 0
    ELSE IF playerCount = 6 THEN 0
    ELSE IF playerCount = 7 THEN 1
    ELSE IF playerCount = 8 THEN 1
    ELSE 2

\* the role given to the player at 0-based position index of the shuffled array
roleAtIndex(playerCount, index) ==
    IF index < cultLeaderCount(playerCount) THEN "CULT_LEADER"
    ELSE IF index < cultLeaderCount(playerCount) + pirateCount(playerCount) THEN "PIRATE"
    ELSE IF index < cultLeaderCount(playerCount) + pirateCount(playerCount)
                        + cultistCount(playerCount) THEN "CULTIST"
    ELSE "SAILOR"

\* roles dealt from the shuffled array, leader recorded from the join order
assignRolesLeaderUnshuffled(g, picks) ==
    LET playerCount == Len(g.players)
        playerArray == shuffle(g.players, picks)
    IN [g EXCEPT !.role = [u \in Range(g.players) |->
                              roleAtIndex(playerCount, FindIndex(playerArray, u))],
                 !.cultLeader = g.players[cultLeaderCount(playerCount)]]

assignRoles(g, picks) ==
    LET playerCount == Len(g.players)
        playerArray == shuffle(g.players, picks)
    IN [g EXCEPT !.role = [u \in Range(g.players) |->
                              roleAtIndex(playerCount, FindIndex(playerArray, u))],
                 !.cultLeader = playerArray[cultLeaderCount(playerCount)]]

\* randomIndex is floor(random * alivePlayers.length), 0-based
assignCaptain(g, randomIndex) ==
    LET alivePlayers == getAlivePlayers(g)
    IN IF Len(alivePlayers) > 0
       THEN [g EXCEPT !.captain = alivePlayers[randomIndex + 1]]
       ELSE g

start(g, picks, randomIndex) ==
    assignCaptain(
        assignRoles([g EXCEPT !.status = "IN_PROGRESS", !.currentPhase = "NIGHT"], picks),
        randomIndex)

\* (currentIndex + 1) % 0 is NaN and alivePlayers[NaN].userId throws a TypeError
rotateCaptainThrows(g) == getAlivePlayers(g) = <<>>

rotateCaptain(g) ==
    LET alivePlayers == getAlivePlayers(g)
        currentIndex == FindIndex(alivePlayers, g.captain)
    IN IF rotateCaptainThrows(g) THEN g
       ELSE [g EXCEPT !.captain = alivePlayers[((currentIndex + 1) % Len(alivePlayers)) + 1]]

setNavigationTeam(g, lieutenantId, navigatorId) ==
    [g EXCEPT !.lieutenant = lieutenantId, !.navigator = navigatorId]

eliminatePlayer(g, userId) ==
    IF userId \in Range(g.players)
    THEN LET g1 == [g EXCEPT !.isAlive[userId] = FALSE]
         IN IF g1.captain = userId THEN rotateCaptain(g1) ELSE g1
    ELSE g

\* checkWinCondition testing the cult's line first
checkWinConditionCultFirst(g) ==
    IF g.shipPosition[2] >= CultGoal THEN "CULT"
    ELSE IF g.shipPosition[1] >= 10 /\ g.shipPosition[2] >= 5 THEN "SAILORS"
    ELSE IF g.shipPosition[1] >= 10 /\ g.shipPosition[2] <= -5 THEN "PIRATES"
    ELSE "null"

checkWinCondition(g) ==
    IF g.shipPosition[1] >= 10 /\ g.shipPosition[2] >= 5 THEN "SAILORS"
    ELSE IF g.shipPosition[1] >= 10 /\ g.shipPosition[2] <= -5 THEN "PIRATES"
    ELSE IF g.shipPosition[2] >= CultGoal THEN "CULT"
    ELSE "null"

moveShip(g, dx, dy) ==
    [g EXCEPT !.shipPosition = <<@[1] + dx, @[2] + dy>>]

\* nextPhase leaving the command where it is
nextPhaseKeepingCaptain(g) ==
    LET currentIndex == FindIndex(phaseOrder, g.currentPhase)
    IN IF currentIndex = -1 \/ currentIndex = Len(phaseOrder) - 1
       THEN [g EXCEPT !.currentTurn = @ + 1,
                      !.currentPhase = "NAVIGATION_SELECTION"]
       ELSE [g EXCEPT !.currentPhase = phaseOrder[currentIndex + 2]]

\* nextPhase counting a turn at every advance
nextPhaseCounting(g) ==
    LET currentIndex == FindIndex(phaseOrder, g.currentPhase)
    IN IF currentIndex = -1 \/ currentIndex = Len(phaseOrder) - 1
       THEN rotateCaptain([g EXCEPT !.currentTurn = @ + 1,
                                    !.currentPhase = "NAVIGATION_SELECTION"])
       ELSE [g EXCEPT !.currentTurn = @ + 1,
                      !.currentPhase = phaseOrder[currentIndex + 2]]

nextPhase(g) ==
    LET currentIndex == FindIndex(phaseOrder, g.currentPhase)
    IN IF currentIndex = -1 \/ currentIndex = Len(phaseOrder) - 1
       THEN rotateCaptain([g EXCEPT !.currentTurn = @ + 1,
                                    !.currentPhase = "NAVIGATION_SELECTION"])
       ELSE [g EXCEPT !.currentPhase = phaseOrder[currentIndex + 2]]

\* electCaptainByGuns is called by TurnManager.resolveMutiny but is not defined in
\* the GameState sources at hand; modelled from the specification: among the alive
\* players other than the previous captain, those holding the maximum gun count
electCandidates(g) ==
    LET crew == {u \in Range(g.players) : g.isAlive[u] /\ u # g.captain}
    IN {u \in crew : \A v \in crew : g.guns[v] <= g.guns[u]}

\* pick is the uniformly random tie-break among electCandidates
electCaptainByGuns(g, pick) ==
    IF pick \in electCandidates(g) THEN [g EXCEPT !.captain = pick] ELSE g

\* ----------------------------------------------------------- TurnManager

NewTurnManager ==
    [ mutinyVotes |-> <<>>,
      selectedLieutenant |-> NoUser,
      selectedNavigator |-> NoUser,
      mutinyEligibleVoters |-> {},
      mutinyTimeoutId |-> FALSE,
      captainNavigationChoice |-> NoMove,
      lieutenantNavigationChoice |-> NoMove,
      captainChoiceLocked |-> FALSE,
      lieutenantChoiceLocked |-> FALSE,
      navigatorChoiceLocked |-> FALSE,
      lastMutinySucceeded |-> FALSE ]

NothingPosted ==
    [ menus |-> {},             \* users shown the team selection menu and confirm button
      mutinyButton |-> FALSE,   \* a 'Cast Mutiny Vote' button is in the channel
      captainCards |-> {},      \* users sent direction cards for the captain role
      lieutenantCards |-> {},   \* users sent direction cards for the lieutenant role
      finalButtons |-> {},      \* <<user, move>>: final-choice buttons sent to a navigator
      modals |-> {} ]           \* users with the mutiny vote modal open

\* A handler runs on a world: the five state variables, the calls it has made
\* (log), and the fate of its notification calls: the fuse-th call to the Slack
\* client made by the handler fails (0: none does); thrown is set once an
\* exception is propagating, and the rest of the handler is then skipped.
World(fuse) ==
    [ games |-> games, turnManagers |-> turnManagers, mutinyTimer |-> mutinyTimer,
      votingTimers |-> votingTimers, posted |-> posted, mutinyRounds |-> mutinyRounds,
      electedInTurn |-> electedInTurn, log |-> {}, fuse |-> fuse, thrown |-> FALSE ]

\* the world before /kraken-start
NewWorld ==
    [ games |-> <<>>, turnManagers |-> <<>>, mutinyTimer |-> FALSE,
      votingTimers |-> 0, posted |-> NothingPosted, mutinyRounds |-> 0,
      electedInTurn |-> 0, log |-> {}, fuse |-> 0, thrown |-> FALSE ]

G(w) == w.games[Channel]
T(w) == w.turnManagers[Channel]

Logged(w, name) == [w EXCEPT !.log = @ \cup {name}]

\* the next client call is the one that fails
Fails(w) == w.fuse = 1

\* a client call has been made
Spend(w) == [w EXCEPT !.fuse = IF @ > 0 THEN @ - 1 ELSE 0]

\* an awaited client call outside try/catch
notify(w) ==
    IF w.thrown THEN w
    ELSE IF Fails(w) THEN [Spend(w) EXCEPT !.thrown = TRUE]
    ELSE Spend(w)

navigationSelectionPhase(w) ==
    LET w1 == notify(w)
        w2 == notify(w1)
    IN IF w2.thrown THEN w2
       ELSE [w2 EXCEPT !.posted.menus = @ \cup {G(w).captain}]

\* an entry that keeps the votes of the round before
mutinyPhaseKeepingVotes(w) ==
    LET alivePlayers == {u \in Range(getAlivePlayers(G(w))) : u # G(w).captain}
        w1 == [Logged(w, "mutinyPhase") EXCEPT
                  !.turnManagers[Channel].mutinyEligibleVoters = alivePlayers,
                  !.mutinyTimer = IF T(w).mutinyTimeoutId THEN FALSE ELSE @,
                  !.mutinyRounds = @ + 1]
        w2 == notify(w1)
    IN IF w2.thrown THEN w2
       ELSE [w2 EXCEPT !.posted.mutinyButton = TRUE,
                       !.turnManagers[Channel].mutinyTimeoutId = TRUE,
                       !.mutinyTimer = TRUE]

mutinyPhase(w) ==
    LET alivePlayers == {u \in Range(getAlivePlayers(G(w))) : u # G(w).captain}
        w1 == [Logged(w, "mutinyPhase") EXCEPT
                  !.turnManagers[Channel].mutinyVotes = <<>>,
                  !.turnManagers[Channel].mutinyEligibleVoters = alivePlayers,
                  !.mutinyTimer = IF T(w).mutinyTimeoutId THEN FALSE ELSE @,
                  !.mutinyRounds = @ + 1]
        w2 == notify(w1)
    IN IF w2.thrown THEN w2
       ELSE [w2 EXCEPT !.posted.mutinyButton = TRUE,
                       !.turnManagers[Channel].mutinyTimeoutId = TRUE,
                       !.mutinyTimer = TRUE]

\* one card message to userId for a role; the send is inside try/catch
sendNavigationChoiceCards(w, userId, role) ==
    IF Fails(w) \/ userId = NoUser THEN Spend(w)
    ELSE IF role = "captain"
    THEN [Spend(w) EXCEPT !.posted.captainCards = @ \cup {userId}]
    ELSE [Spend(w) EXCEPT !.posted.lieutenantCards = @ \cup {userId}]

navigationPhase(w) ==
    LET w1 == [Logged(w, "navigationPhase") EXCEPT
                  !.turnManagers[Channel].captainNavigationChoice = NoMove,
                  !.turnManagers[Channel].lieutenantNavigationChoice = NoMove,
                  !.turnManagers[Channel].captainChoiceLocked = FALSE,
                  !.turnManagers[Channel].lieutenantChoiceLocked = FALSE,
                  !.turnManagers[Channel].navigatorChoiceLocked = FALSE]
        w2 == notify(w1)
    IN IF w2.thrown THEN w2
       ELSE sendNavigationChoiceCards(
                sendNavigationChoiceCards(w2, G(w).captain, "captain"),
                G(w).lieutenant, "lieutenant")

\* both sends are inside one try/catch: the second is skipped when the first fails
sendNavigatorFinalChoice(w) ==
    IF T(w).captainNavigationChoice = NoMove \/ T(w).lieutenantNavigationChoice = NoMove
    THEN w
    ELSE IF Fails(w) \/ G(w).navigator = NoUser THEN Spend(w)
    ELSE Spend([Spend(w) EXCEPT !.posted.finalButtons = @ \cup
                    { <<G(w).navigator, T(w).captainNavigationChoice>>,
                      <<G(w).navigator, T(w).lieutenantNavigationChoice>> }])

votingPhase(w) ==
    LET w1 == notify(Logged(w, "votingPhase"))
    IN IF w1.thrown THEN w1
       ELSE [w1 EXCEPT !.votingTimers = @ + 1]

executePhase(w) ==
    IF w.thrown THEN w
    ELSE IF G(w).currentPhase = "NAVIGATION_SELECTION" THEN navigationSelectionPhase(w)
    ELSE IF G(w).currentPhase = "MUTINY" THEN mutinyPhase(w)
    ELSE IF G(w).currentPhase = "NAVIGATION" THEN navigationPhase(w)
    ELSE IF G(w).currentPhase = "VOTING" THEN votingPhase(w)
    ELSE w

\* startTurn without the skip over NAVIGATION_SELECTION
startTurnNoSkip(w) ==
    LET g1 == nextPhase(G(w))
        newTurn == g1.currentTurn # G(w).currentTurn
    IN IF newTurn /\ rotateCaptainThrows(G(w))
       THEN [Logged(w, "startTurn") EXCEPT !.games[Channel] = g1, !.thrown = TRUE]
       ELSE executePhase([Logged(w, "startTurn") EXCEPT !.games[Channel] = g1])

startTurn(w) ==
    LET wasVotingPhase == G(w).currentPhase = "VOTING"
        g1 == nextPhase(G(w))
        newTurn == g1.currentTurn # G(w).currentTurn
        g2 == IF wasVotingPhase /\ g1.lieutenant # NoUser /\ g1.navigator # NoUser
                 /\ g1.currentPhase = "NAVIGATION_SELECTION"
              THEN [g1 EXCEPT !.currentPhase = "MUTINY"]
              ELSE g1
    IN IF newTurn /\ rotateCaptainThrows(G(w))
       THEN [Logged(w, "startTurn") EXCEPT !.games[Channel] = g1, !.thrown = TRUE]
       ELSE executePhase([Logged(w, "startTurn") EXCEPT !.games[Channel] = g2])

totalGunsUsed(t) == SumOver(t.mutinyVotes, DOMAIN t.mutinyVotes)

totalCrewGuns(g, t) ==
    SumOver([id \in t.mutinyEligibleVoters |->
                IF id \in Range(g.players) THEN g.guns[id] ELSE 0],
            t.mutinyEligibleVoters)

\* a threshold of half the crew's guns, rounded down
mutinyThresholdHalf(crewGuns) == crewGuns \div 2

mutinyThreshold(crewGuns) == (crewGuns \div 2) + 1

mutinySucceeded(g, t) == totalGunsUsed(t) >= mutinyThreshold(totalCrewGuns(g, t))

\* the resolution of an earlier revision: success rotates the captain and the
\* phase is NAVIGATION either way
resolveMutinyRotating(w, pick) ==
    LET w1 == [Logged(w, "resolveMutiny") EXCEPT
                  !.mutinyTimer = IF T(w).mutinyTimeoutId THEN FALSE ELSE @,
                  !.turnManagers[Channel].mutinyTimeoutId = FALSE]
        w2 == IF mutinySucceeded(G(w), T(w))
              THEN [w1 EXCEPT !.games[Channel] =
                                  [rotateCaptain(G(w)) EXCEPT
                                      !.currentPhase = "NAVIGATION"],
                              !.turnManagers[Channel].lastMutinySucceeded = TRUE,
                              !.electedInTurn = G(w).currentTurn]
              ELSE [w1 EXCEPT !.games[Channel].currentPhase = "NAVIGATION",
                              !.turnManagers[Channel].lastMutinySucceeded = FALSE]
    IN executePhase(notify(w2))

\* a resolution that hands the command on when the mutiny fails
resolveMutinyDeposing(w, pick) ==
    LET w1 == [Logged(w, "resolveMutiny") EXCEPT
                  !.mutinyTimer = IF T(w).mutinyTimeoutId THEN FALSE ELSE @,
                  !.turnManagers[Channel].mutinyTimeoutId = FALSE]
        w2 == IF mutinySucceeded(G(w), T(w))
              THEN [w1 EXCEPT !.games[Channel] =
                                  [electCaptainByGuns(G(w), pick) EXCEPT
                                      !.currentPhase = "NAVIGATION_SELECTION"],
                              !.turnManagers[Channel].lastMutinySucceeded = TRUE,
                              !.electedInTurn = G(w).currentTurn]
              ELSE [w1 EXCEPT !.games[Channel] =
                                  [rotateCaptain(G(w)) EXCEPT
                                      !.currentPhase = "NAVIGATION"],
                              !.turnManagers[Channel].lastMutinySucceeded = FALSE]
    IN executePhase(notify(w2))

\* pick is the tie-break drawn inside electCaptainByGuns
resolveMutiny(w, pick) ==
    LET w1 == [Logged(w, "resolveMutiny") EXCEPT
                  !.mutinyTimer = IF T(w).mutinyTimeoutId THEN FALSE ELSE @,
                  !.turnManagers[Channel].mutinyTimeoutId = FALSE]
        w2 == IF mutinySucceeded(G(w), T(w))
              THEN [w1 EXCEPT !.games[Channel] =
                                  [electCaptainByGuns(G(w), pick) EXCEPT
                                      !.currentPhase = "NAVIGATION_SELECTION"],
                              !.turnManagers[Channel].lastMutinySucceeded = TRUE,
                              !.electedInTurn = G(w).currentTurn]
              ELSE [w1 EXCEPT !.games[Channel].currentPhase = "NAVIGATION",
                              !.turnManagers[Channel].lastMutinySucceeded = FALSE]
    IN executePhase(notify(w2))

endTurn(w) ==
    IF checkWinCondition(G(w)) # "null"
    THEN notify(Logged(Logged(w, "endTurn"), "gameOver"))
    ELSE startTurn(Logged(w, "endTurn"))

\* handleAction, case by case

selectLieutenant(w, value) ==
    [w EXCEPT !.turnManagers[Channel].selectedLieutenant = value]

selectNavigator(w, value) ==
    [w EXCEPT !.turnManagers[Channel].selectedNavigator = value]

\* a confirmation that lets one player hold both posts
confirmNavigationTeamAnyPair(w, userId) ==
    IF userId # G(w).captain THEN w
    ELSE IF T(w).selectedLieutenant = NoUser \/ T(w).selectedNavigator = NoUser THEN w
    ELSE LET w1 == notify([w EXCEPT !.games[Channel] =
                              setNavigationTeam(G(w), T(w).selectedLieutenant,
                                                T(w).selectedNavigator)])
         IN IF w1.thrown THEN w1
            ELSE executePhase(
                     [Logged(w1, "confirmNavigationTeam") EXCEPT
                         !.games[Channel].currentPhase = "MUTINY",
                         !.turnManagers[Channel].lastMutinySucceeded = FALSE])

confirmNavigationTeam(w, userId) ==
    IF userId # G(w).captain THEN w
    ELSE IF T(w).selectedLieutenant = NoUser \/ T(w).selectedNavigator = NoUser THEN w
    ELSE IF T(w).selectedLieutenant = T(w).selectedNavigator THEN w
    ELSE LET w1 == notify([w EXCEPT !.games[Channel] =
                              setNavigationTeam(G(w), T(w).selectedLieutenant,
                                                T(w).selectedNavigator)])
         IN IF w1.thrown THEN w1
            ELSE executePhase(
                     [Logged(w1, "confirmNavigationTeam") EXCEPT
                         !.games[Channel].currentPhase = "MUTINY",
                         !.turnManagers[Channel].lastMutinySucceeded = FALSE])

\* openMutinyVoteModal opens the modal for an alive player who is not the captain
opensMutinyVoteModal(w, userId) ==
    /\ userId \in Range(G(w).players)
    /\ G(w).isAlive[userId]
    /\ userId # G(w).captain

\* the captain's handler without the check of the lock
navChoiceCaptainUnlocked(w, userId, move) ==
    IF userId # G(w).captain THEN w
    ELSE LET w1 == notify([w EXCEPT
                              !.turnManagers[Channel].captainNavigationChoice = move,
                              !.turnManagers[Channel].captainChoiceLocked = TRUE])
         IN IF w1.thrown THEN w1
            ELSE IF T(w1).lieutenantNavigationChoice # NoMove
                 THEN sendNavigatorFinalChoice(w1)
                 ELSE w1

navChoiceCaptain(w, userId, move) ==
    IF T(w).captainChoiceLocked THEN w
    ELSE IF userId # G(w).captain THEN w
    ELSE LET w1 == notify([w EXCEPT
                              !.turnManagers[Channel].captainNavigationChoice = move,
                              !.turnManagers[Channel].captainChoiceLocked = TRUE])
         IN IF w1.thrown THEN w1
            ELSE IF T(w1).lieutenantNavigationChoice # NoMove
                 THEN sendNavigatorFinalChoice(w1)
                 ELSE w1

navChoiceLieutenant(w, userId, move) ==
    IF T(w).lieutenantChoiceLocked THEN w
    ELSE IF userId # G(w).lieutenant THEN w
    ELSE LET w1 == notify([w EXCEPT
                              !.turnManagers[Channel].lieutenantNavigationChoice = move,
                              !.turnManagers[Channel].lieutenantChoiceLocked = TRUE])
         IN IF w1.thrown THEN w1
            ELSE IF T(w1).captainNavigationChoice # NoMove
                 THEN sendNavigatorFinalChoice(w1)
                 ELSE w1

\* the navigator's handler without the check of the lock
navigateFinalUnlocked(w, userId, move) ==
    IF userId # G(w).navigator THEN w
    ELSE LET w1 == notify([Logged(w, "moveShip") EXCEPT
                              !.turnManagers[Channel].navigatorChoiceLocked = TRUE,
                              !.games[Channel] = moveShip(G(w), move[1], move[2])])
         IN IF w1.thrown THEN w1
            ELSE executePhase([w1 EXCEPT !.games[Channel].currentPhase = "VOTING"])

navigateFinal(w, userId, move) ==
    IF T(w).navigatorChoiceLocked THEN w
    ELSE IF userId # G(w).navigator THEN w
    ELSE LET w1 == notify([Logged(w, "moveShip") EXCEPT
                              !.turnManagers[Channel].navigatorChoiceLocked = TRUE,
                              !.games[Channel] = moveShip(G(w), move[1], move[2])])
         IN IF w1.thrown THEN w1
            ELSE executePhase([w1 EXCEPT !.games[Channel].currentPhase = "VOTING"])

\* a submission that takes the committed guns from the voter
handleViewSubmissionSpending(w, userId, gunsCount, pick) ==
    LET w1 == notify([w EXCEPT !.turnManagers[Channel].mutinyVotes =
                                   (userId :> gunsCount) @@ @,
                               !.games[Channel].guns[userId] = @ - gunsCount])
    IN IF w1.thrown THEN w1
       ELSE IF Cardinality(DOMAIN T(w1).mutinyVotes)
                   = Cardinality(T(w1).mutinyEligibleVoters)
            THEN resolveMutiny(w1, pick)
            ELSE notify(w1)

handleViewSubmission(w, userId, gunsCount, pick) ==
    LET w1 == notify([w EXCEPT !.turnManagers[Channel].mutinyVotes =
                                   (userId :> gunsCount) @@ @])
    IN IF w1.thrown THEN w1
       ELSE IF Cardinality(DOMAIN T(w1).mutinyVotes)
                   = Cardinality(T(w1).mutinyEligibleVoters)
            THEN resolveMutiny(w1, pick)
            ELSE notify(w1)

\* handleViewSubmission up to its first await: the vote is in the map and the
\* handler waits for postEphemeral
handleViewSubmissionRecords(w, userId, gunsCount) ==
    [w EXCEPT !.turnManagers[Channel].mutinyVotes = (userId :> gunsCount) @@ @]

\* handleViewSubmission from its first await on
handleViewSubmissionResumes(w, pick) ==
    LET w1 == notify(w)
    IN IF w1.thrown THEN w1
       ELSE IF Cardinality(DOMAIN T(w1).mutinyVotes)
                   = Cardinality(T(w1).mutinyEligibleVoters)
            THEN resolveMutiny(w1, pick)
            ELSE notify(w1)

\* ----------------------------------------------------------- GameManager

hasGame == Channel \in DOMAIN games
hasTurnManager == Channel \in DOMAIN turnManagers

\* a session created without its host
createGameWithoutHost(hostId) == Channel :> NewGameState(hostId)

createGame(hostId) == Channel :> addPlayer(NewGameState(hostId), hostId)

joinGame(w, userId) == [w EXCEPT !.games[Channel] = addPlayer(@, userId)]

\* beginGame without the check of the host
beginGameOkAnyone(userId) ==
    /\ hasGame
    /\ canStart(games[Channel])

beginGameOk(userId) ==
    /\ hasGame
    /\ isHost(games[Channel], userId)
    /\ canStart(games[Channel])

\* beginGame without the first startTurn
beginGameNoTurn(w, picks, randomIndex) ==
    [w EXCEPT !.games = Channel :> start(G(w), picks, randomIndex),
              !.turnManagers = Channel :> NewTurnManager]

\* game.start(), new TurnManager, role DMs (each inside try/catch), startTurn
beginGame(w, picks, randomIndex) ==
    startTurn([w EXCEPT
                  !.games = Channel :> start(G(w), picks, randomIndex),
                  !.turnManagers = Channel :> NewTurnManager])

\* ------------------------------------------------------------- the inputs

\* outcomes of Math.random at start: every draw lowest, or every draw highest
\* (the shuffle's picks and the index of the first captain)
RandomStreams(n) ==
    { [picks |-> [i \in 1..(n - 1) |-> 0], randomIndex |-> 0],
      [picks |-> [i \in 1..(n - 1) |-> i], randomIndex |-> n - 1] }

\* every draw of the shuffle independently lowest or highest
FinePicks(n) ==
    { [i \in 1..(n - 1) |-> IF b[i] THEN i ELSE 0] : b \in [1..(n - 1) -> BOOLEAN] }

\* the options of the selection menu shown to userId as captain: the other players
\* in join order, of which the model lets the captain pick among the first few
MenuChoices == 2
menuList(g, userId) ==
    LET options == SelectSeq2(g.players, Range(g.players) \ {userId})
    IN SubSeq(options, 1, IF Len(options) < MenuChoices THEN Len(options)
                          ELSE MenuChoices)

menuOptions(g, userId) == Range(menuList(g, userId))

\* the directions the model lets the proposers pick from the cards drawn for them
CardDraws == {North}

\* voters submit in join order: a voter waits for the eligible voters that joined earlier
InTurn(t, userId) ==
    \A v \in t.mutinyEligibleVoters : v < userId => v \in DOMAIN t.mutinyVotes

\* what a voter types into the modal (between 0 and the guns held): the players
\* with an odd join number stake every gun they hold, the others stake none
GunChoices(userId, held) == IF userId % 2 = 1 THEN {held} ELSE {0}

\* the tie-break of an election, drawn only when the resolution will elect: the
\* random draw is lowest (the first candidate) or highest (the last)
TieBreaks(g, t) ==
    IF mutinySucceeded(g, t) /\ electCandidates(g) # {}
    THEN { CHOOSE u \in electCandidates(g) : \A v \in electCandidates(g) : u <= v,
           CHOOSE u \in electCandidates(g) : \A v \in electCandidates(g) : u >= v }
    ELSE {NoUser}

\* which notification call of a handler fails (0: none); notifications are
\* reliable under Spec
Fuses(k) == {0}

\* ------------------------------------------------------------ the actions

Abs(x) == IF x < 0 THEN -x ELSE x

\* turns sailed north before the late game starts
LateLaps == CultGoal - MaxDistance

\* where a run sets out from: the ship's position and the turns begun so far
Anchors ==
    { [position |-> <<0, 0>>, turn |-> 0],
      [position |-> <<0, LateLaps>>, turn |-> LateLaps] }

\* the caps on the ship's travel and on the turn counter
WithinReach(g) ==
    \E a \in Anchors :
        /\ Abs(g.shipPosition[1] - a.position[1])
              + Abs(g.shipPosition[2] - a.position[2]) <= MaxDistance
        /\ g.currentTurn >= a.turn
        /\ g.currentTurn <= a.turn + MaxTurn

\* the handler left the program as it was (a rejected or ignored event)
Unchanged(w) ==
    /\ w.games = games
    /\ w.turnManagers = turnManagers
    /\ w.mutinyTimer = mutinyTimer
    /\ w.votingTimers = votingTimers
    /\ w.posted = posted
    /\ w.mutinyRounds = mutinyRounds
    /\ w.electedInTurn = electedInTurn
    /\ w.log = {}

\* the caps of the model, and the state a handler leaves
Lands(w) ==
    /\ WithinReach(w.games[Channel])
    /\ w.votingTimers <= MaxVotingTimers
    /\ w.mutinyRounds <= MaxMutinyRounds
    /\ games' = w.games
    /\ turnManagers' = w.turnManagers
    /\ mutinyTimer' = w.mutinyTimer
    /\ votingTimers' = w.votingTimers
    /\ posted' = w.posted
    /\ mutinyRounds' = w.mutinyRounds
    /\ electedInTurn' = w.electedInTurn
    /\ trace' = IF Unchanged(w) THEN trace ELSE w.log

Commit(w) ==
    /\ Lands(w)
    /\ UNCHANGED <<staleClicks, awaiting>>

\* a click on an interactive element offered by the phase offeredIn
Click(w, offeredIn) ==
    LET stale == games[Channel].currentPhase # offeredIn /\ ~Unchanged(w)
    IN /\ stale => staleClicks < MaxStaleClicks
       /\ Lands(w)
       /\ staleClicks' = IF stale THEN staleClicks + 1 ELSE staleClicks
       /\ UNCHANGED awaiting

\* /kraken-start
CreateGame(userId) ==
    /\ games' = IF hasGame THEN games ELSE createGame(userId)
    /\ UNCHANGED <<turnManagers, mutinyTimer, votingTimers, posted, trace, staleClicks,
                   mutinyRounds, electedInTurn, awaiting>>

\* /kraken-join; users are numbered in the order they join
JoinGame(userId) ==
    /\ hasGame
    /\ userId <= Len(games[Channel].players) + 1
    /\ games' = joinGame(World(0), userId).games
    /\ UNCHANGED <<turnManagers, mutinyTimer, votingTimers, posted, trace, staleClicks,
                   mutinyRounds, electedInTurn, awaiting>>

\* /kraken-begin
BeginGame(userId) ==
    IF beginGameOk(userId)
    THEN \E fuse \in Fuses(2), random \in RandomStreams(Len(games[Channel].players)) :
            Commit(beginGame(World(fuse), random.picks, random.randomIndex))
    ELSE UNCHANGED vars

SelectLieutenant(userId, value) ==
    /\ hasTurnManager
    /\ userId \in posted.menus
    /\ value \in menuOptions(games[Channel], userId)
    /\ Click(selectLieutenant(World(0), value), "NAVIGATION_SELECTION")

SelectNavigator(userId, value) ==
    /\ hasTurnManager
    /\ userId \in posted.menus
    /\ value \in menuOptions(games[Channel], userId)
    /\ Click(selectNavigator(World(0), value), "NAVIGATION_SELECTION")

ConfirmNavigationTeam(userId) ==
    /\ hasTurnManager
    /\ userId \in posted.menus
    /\ \E fuse \in Fuses(2) : Click(confirmNavigationTeam(World(fuse), userId), "NAVIGATION_SELECTION")

\* the 'Cast Mutiny Vote' button, then the submission of the modal it opens
SubmitMutinyVote(userId, gunsCount) ==
    /\ hasTurnManager
    /\ posted.mutinyButton
    /\ opensMutinyVoteModal(World(0), userId)
    /\ gunsCount \in 0..games[Channel].guns[userId]
    /\ \E fuse \in Fuses(5) :
          LET voted == [turnManagers[Channel] EXCEPT
                           !.mutinyVotes = (userId :> gunsCount) @@ @]
          IN \E pick \in TieBreaks(games[Channel], voted) :
                Click(handleViewSubmission(World(fuse), userId, gunsCount, pick), "MUTINY")

NavChoiceCaptain(userId, move) ==
    /\ hasTurnManager
    /\ userId \in posted.captainCards
    /\ \E fuse \in Fuses(2) : Click(navChoiceCaptain(World(fuse), userId, move), "NAVIGATION")

NavChoiceLieutenant(userId, move) ==
    /\ hasTurnManager
    /\ userId \in posted.lieutenantCards
    /\ \E fuse \in Fuses(2) : Click(navChoiceLieutenant(World(fuse), userId, move), "NAVIGATION")

NavigateFinal(userId, move) ==
    /\ hasTurnManager
    /\ <<userId, move>> \in posted.finalButtons
    /\ \E fuse \in Fuses(2) : Click(navigateFinal(World(fuse), userId, move), "NAVIGATION")

\* a vote as the crew of the full game casts it
CastMutinyVote(userId, gunsCount) ==
    /\ hasGame
    /\ userId \in Range(games[Channel].players)
    /\ gunsCount \in GunChoices(userId, games[Channel].guns[userId])
    /\ hasTurnManager
    /\ InTurn(turnManagers[Channel], userId)
    /\ SubmitMutinyVote(userId, gunsCount)

\* the timer set by mutinyPhase fires
MutinyTimeout ==
    /\ mutinyTimer
    /\ \E fuse \in Fuses(4), pick \in TieBreaks(games[Channel], turnManagers[Channel]) :
          Commit(resolveMutiny(World(fuse), pick))

\* a timer set by votingPhase fires
VotingTimeout ==
    /\ votingTimers > 0
    /\ \E fuse \in Fuses(3) :
          Commit(endTurn([World(fuse) EXCEPT !.votingTimers = @ - 1]))

Init ==
    /\ games = <<>>
    /\ turnManagers = <<>>
    /\ mutinyTimer = FALSE
    /\ votingTimers = 0
    /\ posted = NothingPosted
    /\ trace = {}
    /\ staleClicks = 0
    /\ mutinyRounds = 0
    /\ electedInTurn = 0
    /\ awaiting = {}

Next ==
    \/ \E userId \in {1} : CreateGame(userId)
    \/ \E userId \in Users : JoinGame(userId)
    \/ \E userId \in Users : BeginGame(userId)
    \/ \E userId \in Users, value \in Users : SelectLieutenant(userId, value)
    \/ \E userId \in Users, value \in Users : SelectNavigator(userId, value)
    \/ \E userId \in Users : ConfirmNavigationTeam(userId)
    \/ \E userId \in Users, gunsCount \in 0..DefaultGuns : CastMutinyVote(userId, gunsCount)
    \/ \E userId \in Users, move \in CardDraws : NavChoiceCaptain(userId, move)
    \/ \E userId \in Users, move \in CardDraws : NavChoiceLieutenant(userId, move)
    \/ \E userId \in Users, move \in Directions : NavigateFinal(userId, move)
    \/ MutinyTimeout
    \/ VotingTimeout

Spec == Init /\ [][Next]_vars

\* /kraken-join by a newcomer once the game has begun
LateJoin ==
    /\ hasGame
    /\ games[Channel].status # "WAITING"
    /\ JoinGame(Len(games[Channel].players) + 1)

NextOpen == Next \/ LateJoin

\* the bot in a channel where people keep asking to join
SpecOpen == Init /\ [][NextOpen]_vars

\* ------------------------------------------- the session aggregate alone

\* a lobby of n players: the host created the session and the others joined
RECURSIVE Lobby(_)
Lobby(n) ==
    IF n <= 1 THEN [NewWorld EXCEPT !.games = createGame(1)]
    ELSE joinGame(Lobby(n - 1), n)

\* GameState.start on a lobby, with the draws of Math.random as inputs
StartSession ==
    /\ hasGame
    /\ canStart(games[Channel])
    /\ \E picks \in FinePicks(Len(games[Channel].players)),
          randomIndex \in {0, Len(getAlivePlayers(games[Channel])) - 1} :
            games' = [games EXCEPT ![Channel] = start(@, picks, randomIndex)]
    /\ UNCHANGED <<turnManagers, mutinyTimer, votingTimers, posted, trace, staleClicks,
                   mutinyRounds, electedInTurn, awaiting>>

InitRoles ==
    /\ \E n \in MinPlayers..MaxRolePlayers : games = Lobby(n).games
    /\ turnManagers = <<>>
    /\ mutinyTimer = FALSE
    /\ votingTimers = 0
    /\ posted = NothingPosted
    /\ trace = {}
    /\ staleClicks = 0
    /\ mutinyRounds = 0
    /\ electedInTurn = 0
    /\ awaiting = {}

NextRoles == StartSession

SpecRoles == InitRoles /\ [][NextRoles]_vars

\* GameState.eliminatePlayer, called on a session directly
EliminatePlayer(userId) ==
    /\ hasGame
    /\ games' = [games EXCEPT ![Channel] = eliminatePlayer(@, userId)]
    /\ UNCHANGED <<turnManagers, mutinyTimer, votingTimers, posted, trace, staleClicks,
                   mutinyRounds, electedInTurn, awaiting>>

\* GameState.rotateCaptain, called on a session directly
RotateCaptain ==
    /\ hasGame
    /\ games[Channel].status = "IN_PROGRESS"
    /\ games' = [games EXCEPT ![Channel] = rotateCaptain(@)]
    /\ UNCHANGED <<turnManagers, mutinyTimer, votingTimers, posted, trace, staleClicks,
                   mutinyRounds, electedInTurn, awaiting>>

NextSession ==
    \/ \E userId \in {1} : CreateGame(userId)
    \/ \E userId \in Users : JoinGame(userId)
    \/ StartSession
    \/ \E userId \in Users : EliminatePlayer(userId)
    \/ RotateCaptain

SpecSession == Init /\ [][NextSession]_vars

\* ------------------------------------------------- nextPhase alone

\* the values of the type GamePhase
GamePhases ==
    {"LOBBY", "NIGHT", "NAVIGATION_SELECTION", "MUTINY", "NAVIGATION", "VOTING",
     "FEED_KRAKEN"}

\* a started session of five in any phase
InitPhases ==
    /\ \E random \in RandomStreams(MinPlayers), phase \in GamePhases :
          games = Channel :> [start(G(Lobby(MinPlayers)), random.picks, random.randomIndex)
                                 EXCEPT !.currentPhase = phase]
    /\ turnManagers = <<>>
    /\ mutinyTimer = FALSE
    /\ votingTimers = 0
    /\ posted = NothingPosted
    /\ trace = {}
    /\ staleClicks = 0
    /\ mutinyRounds = 0
    /\ electedInTurn = 0
    /\ awaiting = {}

\* GameState.nextPhase, called on a session directly
NextPhase ==
    /\ hasGame
    /\ nextPhase(games[Channel]).currentTurn <= MaxTurn
    /\ games' = [games EXCEPT ![Channel] = nextPhase(@)]
    /\ trace' = {"nextPhase"}
    /\ UNCHANGED <<turnManagers, mutinyTimer, votingTimers, posted, staleClicks,
                   mutinyRounds, electedInTurn, awaiting>>

NextPhases ==
    \/ NextPhase
    \/ \E userId \in Users : EliminatePlayer(userId)

SpecPhases == InitPhases /\ [][NextPhases]_vars

\* ------------------------------------------------ the mutiny round alone

\* the world as the next handler finds it
Settled(w) == [w EXCEPT !.log = {}, !.fuse = 0, !.thrown = FALSE]

\* a game of n players begun by the host
Begun(n, random) == beginGame(Lobby(n), random.picks, random.randomIndex)

\* the captain picks the first two options of the menus and confirms the team
TeamConfirmed(w) ==
    LET options == menuList(G(w), G(w).captain)
        picked == selectNavigator(selectLieutenant(Settled(w), options[1]), options[2])
    IN IF G(w).currentPhase = "NAVIGATION_SELECTION"
       THEN confirmNavigationTeam(picked, G(w).captain)
       ELSE w

\* a run starts in the state a scripted prefix w has left; the caps on stale clicks
\* and on MUTINY entries count from there
StartsAt(w) ==
    /\ games = w.games
    /\ turnManagers = w.turnManagers
    /\ mutinyTimer = w.mutinyTimer
    /\ votingTimers = w.votingTimers
    /\ posted = w.posted
    /\ trace = w.log
    /\ staleClicks = 0
    /\ mutinyRounds = 0
    /\ electedInTurn = w.electedInTurn
    /\ awaiting = {}

\* the first MUTINY phase of a game has just been entered
InitTally ==
    \E n \in MinPlayers..MaxPlayers :
        \E random \in RandomStreams(n) : StartsAt(TeamConfirmed(Begun(n, random)))

\* the crew votes in any order, each voter any number of guns up to those held
NextTally ==
    \/ \E userId \in Users, gunsCount \in 0..DefaultGuns :
          SubmitMutinyVote(userId, gunsCount)
    \/ MutinyTimeout

SpecTally == InitTally /\ [][NextTally]_vars

\* ------------------------------------------- the vote modal, step by step

\* what a voter types into the modal
ModalGuns == {0, DefaultGuns}

\* a click on 'Cast Mutiny Vote': openMutinyVoteModal shows the modal
OpenMutinyVoteModal(userId) ==
    /\ hasTurnManager
    /\ posted.mutinyButton
    /\ opensMutinyVoteModal(World(0), userId)
    /\ posted' = [posted EXCEPT !.modals = @ \cup {userId}]
    /\ UNCHANGED <<games, turnManagers, mutinyTimer, votingTimers, trace, staleClicks,
                   mutinyRounds, electedInTurn, awaiting>>

\* the user submits the modal they have open, whenever they choose to
SubmitModal(userId, gunsCount) ==
    /\ hasTurnManager
    /\ userId \in posted.modals
    /\ LET voted == [turnManagers[Channel] EXCEPT
                        !.mutinyVotes = (userId :> gunsCount) @@ @]
           closed == [World(0) EXCEPT !.posted.modals = @ \ {userId}]
       IN \E pick \in TieBreaks(games[Channel], voted) :
             Click(handleViewSubmission(closed, userId, gunsCount, pick), "MUTINY")

NextModals ==
    \/ \E userId \in Users : OpenMutinyVoteModal(userId)
    \/ \E userId \in Users, gunsCount \in ModalGuns : SubmitModal(userId, gunsCount)
    \/ MutinyTimeout

SpecModals == InitTally /\ [][NextModals]_vars

\* ------------------------------------------------ the navigation rounds

\* nobody votes and the mutiny timer fires
MutinyLapsed(w) == IF w.thrown THEN w ELSE resolveMutiny(Settled(w), NoUser)

\* the first NAVIGATION phase of a game has just been entered
InitNavigation ==
    \E n \in MinPlayers..MaxPlayers :
        \E random \in RandomStreams(n) :
            StartsAt(MutinyLapsed(TeamConfirmed(Begun(n, random))))

\* proposers and navigator click any of the four directions their cards may
\* show; the timers carry the game from one NAVIGATION round to the next
NextNavigation ==
    \/ \E userId \in Users, move \in Directions : NavChoiceCaptain(userId, move)
    \/ \E userId \in Users, move \in Directions : NavChoiceLieutenant(userId, move)
    \/ \E userId \in Users, move \in Directions : NavigateFinal(userId, move)
    \/ VotingTimeout
    \/ MutinyTimeout

SpecNavigation == InitNavigation /\ [][NextNavigation]_vars

\* ------------------------------------------- the turns, with end_turn

\* the end_turn action: handleAction calls endTurn for any sender, in any phase
EndTurn(userId) ==
    /\ hasTurnManager
    /\ userId \in Range(games[Channel].players)
    /\ \E fuse \in Fuses(3) : Commit(endTurn(World(fuse)))

\* the host has just begun the game
InitTurns ==
    \E n \in MinPlayers..MaxPlayers :
        \E random \in RandomStreams(n) : StartsAt(Begun(n, random))

NextTurns ==
    \/ \E userId \in {1} : EndTurn(userId)
    \/ \E userId \in Users, value \in Users : SelectLieutenant(userId, value)
    \/ \E userId \in Users, value \in Users : SelectNavigator(userId, value)
    \/ \E userId \in Users : ConfirmNavigationTeam(userId)
    \/ \E userId \in Users, move \in CardDraws : NavChoiceCaptain(userId, move)
    \/ \E userId \in Users, move \in CardDraws : NavChoiceLieutenant(userId, move)
    \/ \E userId \in Users, move \in Directions : NavigateFinal(userId, move)
    \/ MutinyTimeout
    \/ VotingTimeout

SpecTurns == InitTurns /\ [][NextTurns]_vars

\* a lobby of five waits for the host to begin
InitCycle == StartsAt(Lobby(MinPlayers))

NextCycle == NextTurns \/ \E userId \in Users : BeginGame(userId)

\* the turns of a game from its beginning, with the end_turn action
SpecCycle == InitCycle /\ [][NextCycle]_vars

\* ------------------------------------------------ the chart of the sea

\* GameState.moveShip, called on a session directly, within the chart
MoveShip(dx, dy) ==
    /\ hasGame
    /\ LET moved == moveShip(games[Channel], dx, dy)
       IN /\ moved.shipPosition[1] \in 0..MaxChart
          /\ moved.shipPosition[2] \in -MaxChart..MaxChart
          /\ games' = [games EXCEPT ![Channel] = moved]
    /\ trace' = {}
    /\ UNCHANGED <<turnManagers, mutinyTimer, votingTimers, posted, staleClicks,
                   mutinyRounds, electedInTurn, awaiting>>

\* GameState.checkWinCondition, called on a session directly; the winner it
\* returns is kept in trace
CheckWinCondition ==
    /\ hasGame
    /\ trace' = {checkWinCondition(games[Channel])}
    /\ UNCHANGED <<games, turnManagers, mutinyTimer, votingTimers, posted, staleClicks,
                   mutinyRounds, electedInTurn, awaiting>>

NextChart ==
    \/ \E move \in Directions : MoveShip(move[1], move[2])
    \/ CheckWinCondition

SpecChart == InitTurns /\ [][NextChart]_vars

\* ------------------------------------- view submissions, await by await

\* app.view hands a submission to handleViewSubmission, which runs up to its
\* first await; nothing keeps the next event of the session from being handled
\* before the call returns
ViewSubmissionArrives(userId, gunsCount) ==
    /\ hasTurnManager
    /\ games[Channel].currentPhase = "MUTINY"
    /\ posted.mutinyButton
    /\ opensMutinyVoteModal(World(0), userId)
    /\ userId \notin awaiting
    /\ turnManagers' = handleViewSubmissionRecords(World(0), userId, gunsCount).turnManagers
    /\ awaiting' = awaiting \cup {userId}
    /\ trace' = {}
    /\ UNCHANGED <<games, mutinyTimer, votingTimers, posted, staleClicks, mutinyRounds,
                   electedInTurn>>

\* the awaited call returns and the handler goes on
ViewSubmissionResumes(userId) ==
    /\ hasTurnManager
    /\ userId \in awaiting
    /\ \E pick \in TieBreaks(games[Channel], turnManagers[Channel]) :
          Lands(handleViewSubmissionResumes(World(0), pick))
    /\ awaiting' = awaiting \ {userId}
    /\ UNCHANGED staleClicks

NextAwait ==
    \/ \E userId \in Users, gunsCount \in ModalGuns : ViewSubmissionArrives(userId, gunsCount)
    \/ \E userId \in Users : ViewSubmissionResumes(userId)
    \/ MutinyTimeout

SpecAwait == InitTally /\ [][NextAwait]_vars

\* ------------------------------------------- notifications that may fail

\* at most one of the k client calls of a handler fails, or none
Faults(k) == 0..k

\* the navigator's commit over an unreliable connection to Slack
NavigateFinalUnreliable(userId, move) ==
    /\ hasTurnManager
    /\ <<userId, move>> \in posted.finalButtons
    /\ \E fuse \in Faults(2) : Click(navigateFinal(World(fuse), userId, move), "NAVIGATION")

\* the mutiny timer over an unreliable connection to Slack
MutinyTimeoutUnreliable ==
    /\ mutinyTimer
    /\ \E fuse \in Faults(4), pick \in TieBreaks(games[Channel], turnManagers[Channel]) :
          Commit(resolveMutiny(World(fuse), pick))

NextFaulty ==
    \/ MutinyTimeoutUnreliable
    \/ \E userId \in Users, move \in {North, South} : NavChoiceCaptain(userId, move)
    \/ \E userId \in Users, move \in {North, South} : NavChoiceLieutenant(userId, move)
    \/ \E userId \in Users, move \in Directions : NavigateFinalUnreliable(userId, move)
    \/ VotingTimeout

SpecFaulty == InitTally /\ [][NextFaulty]_vars

\* ------------------------------------------------------- the late game

\* one uneventful turn: the team is confirmed (unless the turn opened in MUTINY),
\* nobody votes and the mutiny timer fires, captain and lieutenant both propose
\* North, the navigator commits North, and the discussion timer ends the turn
Lap(w) ==
    LET w1 == TeamConfirmed(w)
        w2 == resolveMutiny(Settled(w1), NoUser)
        w3 == navChoiceCaptain(Settled(w2), G(w2).captain, North)
        w4 == navChoiceLieutenant(Settled(w3), G(w3).lieutenant, North)
        w5 == navigateFinal(Settled(w4), G(w4).navigator, North)
    IN IF w1.thrown THEN w1
       ELSE IF w2.thrown THEN w2
       ELSE IF w3.thrown THEN w3
       ELSE IF w4.thrown THEN w4
       ELSE IF w5.thrown THEN w5
       ELSE endTurn([Settled(w5) EXCEPT !.votingTimers = @ - 1])

RECURSIVE Voyage(_, _)
Voyage(w, laps) ==
    IF laps <= 0 THEN w
    ELSE LET sailed == Voyage(w, laps - 1)
         IN IF sailed.thrown THEN sailed ELSE Lap(sailed)

\* the ship has sailed north for LateLaps turns
InitLate ==
    \E n \in MinPlayers..MaxPlayers :
        \E random \in RandomStreams(n) : StartsAt(Voyage(Begun(n, random), LateLaps))

SpecLate == InitLate /\ [][Next]_vars

\* ------------------------------------ a modal kept open across a turn

\* userId has clicked 'Cast Mutiny Vote' and has not submitted the modal yet
ModalLeftOpen(w, userId) ==
    IF opensMutinyVoteModal(w, userId)
    THEN [w EXCEPT !.posted.modals = @ \cup {userId}]
    ELSE w

\* the second turn has begun; its captain opened the modal during the first
\* turn's round, as a voter, and still has it open
InitOverlap ==
    \E random \in RandomStreams(MinPlayers) :
        LET w1 == TeamConfirmed(Begun(MinPlayers, random))
            coming == rotateCaptain(G(w1)).captain
        IN StartsAt(Lap(ModalLeftOpen(Settled(w1), coming)))

\* a submission of an open modal arrives during a round: the vote is recorded and
\* the handler waits for its first client call
ModalSubmissionArrives(userId, gunsCount) ==
    /\ hasTurnManager
    /\ games[Channel].currentPhase = "MUTINY"
    /\ userId \in posted.modals
    /\ userId \notin awaiting
    /\ turnManagers' = handleViewSubmissionRecords(World(0), userId, gunsCount).turnManagers
    /\ posted' = [posted EXCEPT !.modals = @ \ {userId}]
    /\ awaiting' = awaiting \cup {userId}
    /\ trace' = {}
    /\ UNCHANGED <<games, mutinyTimer, votingTimers, staleClicks, mutinyRounds,
                   electedInTurn>>

\* a voter who has not voted in the running round opens the modal
OpenModalToVote(userId) ==
    /\ hasTurnManager
    /\ games[Channel].currentPhase = "MUTINY"
    /\ userId \notin DOMAIN turnManagers[Channel].mutinyVotes
    /\ OpenMutinyVoteModal(userId)

NextOverlap ==
    \/ \E userId \in Users : OpenModalToVote(userId)
    \/ \E userId \in Users, gunsCount \in ModalGuns : ModalSubmissionArrives(userId, gunsCount)
    \/ \E userId \in Users : ViewSubmissionResumes(userId)
    \/ MutinyTimeout

SpecOverlap == InitOverlap /\ [][NextOverlap]_vars

\* --------------------------------------------------------- the landing

\* every eligible voter but the last to have joined submits 0 guns
AllButOneAbstain(w) ==
    LET voters == SelectSeq2(G(w).players, T(w).mutinyEligibleVoters)
        w1 == handleViewSubmission(Settled(w), voters[1], 0, NoUser)
        w2 == handleViewSubmission(Settled(w1), voters[2], 0, NoUser)
        w3 == handleViewSubmission(Settled(w2), voters[3], 0, NoUser)
    IN IF w.thrown \/ Len(voters) # 4 THEN w
       ELSE IF w1.thrown THEN w1
       ELSE IF w2.thrown THEN w2
       ELSE w3

\* the ship is one move south of the cult's line; the mutiny round of the turn
\* has lapsed with one voter still to submit, and the proposers are about to
\* choose
InitLanding ==
    \E random \in RandomStreams(MinPlayers) :
        StartsAt(MutinyLapsed(AllButOneAbstain(
                     Voyage(Begun(MinPlayers, random), LateLaps + 1))))

\* the cards show North and South; the 'Cast Mutiny Vote' button is still in the
\* channel
NextLanding ==
    \/ \E userId \in Users, move \in {North, South} : NavChoiceCaptain(userId, move)
    \/ \E userId \in Users, move \in {North, South} : NavChoiceLieutenant(userId, move)
    \/ \E userId \in Users, move \in Directions : NavigateFinal(userId, move)
    \/ \E userId \in Users, gunsCount \in ModalGuns : SubmitMutinyVote(userId, gunsCount)
    \/ VotingTimeout

SpecLanding == InitLanding /\ [][NextLanding]_vars

\* ------------------------------------------------------------ the claims

\* the number of players of the session holding a role
RoleCount(g, r) == Cardinality({u \in Range(g.players) : g.role[u] = r})

\* the role table of the rules, by player count
PiratesAt(p) == IF p <= 7 THEN 2 ELSE 3
CultistsAt(p) == IF p <= 6 THEN 0 ELSE IF p <= 8 THEN 1 ELSE 2

\* C1: once a game of p players (5 <= p) has started, every player holds exactly
\* one of the four roles, exactly one player is CULT_LEADER, there are 2 PIRATEs
\* for p <= 7 and 3 from 8 on, 0 CULTISTs for p <= 6, 1 for p in {7, 8} and 2 from
\* 9 on, everyone else is SAILOR, and the four counts sum to p
C1_RoleDistribution ==
    (hasGame /\ games[Channel].status = "IN_PROGRESS") =>
        LET g == games[Channel]
            p == Len(g.players)
        IN /\ \A u \in Range(g.players) :
                  g.role[u] \in {"CULT_LEADER", "PIRATE", "CULTIST", "SAILOR"}
           /\ RoleCount(g, "CULT_LEADER") = 1
           /\ RoleCount(g, "PIRATE") = PiratesAt(p)
           /\ RoleCount(g, "CULTIST") = CultistsAt(p)
           /\ RoleCount(g, "SAILOR") = p - 1 - PiratesAt(p) - CultistsAt(p)
           /\ RoleCount(g, "CULT_LEADER") + RoleCount(g, "PIRATE")
                 + RoleCount(g, "CULTIST") + RoleCount(g, "SAILOR") = p
           /\ g.cultLeader \in Range(g.players)
           /\ g.role[g.cultLeader] = "CULT_LEADER"

\* a started game of eight players: three pirates and one cultist at the table
C1_Witness ==
    /\ hasGame
    /\ games[Channel].status = "IN_PROGRESS"
    /\ Len(games[Channel].players) = 8
    /\ RoleCount(games[Channel], "PIRATE") = 3
    /\ RoleCount(games[Channel], "CULTIST") = 1

\* the guns submitted and the guns held by the eligible voters, summed afresh
GunsSubmitted == SumOver(turnManagers[Channel].mutinyVotes,
                         DOMAIN turnManagers[Channel].mutinyVotes)
GunsOfCrew == SumOver([id \in turnManagers[Channel].mutinyEligibleVoters |->
                          games[Channel].guns[id]],
                      turnManagers[Channel].mutinyEligibleVoters)

\* the last handler that had an effect ran the resolution step
Resolved == hasTurnManager /\ "resolveMutiny" \in trace

\* C2: a resolution declares the mutiny successful exactly when the guns submitted
\* reach floor(guns held by the eligible voters / 2) + 1; for a crew holding 9 guns
\* the threshold is 5, so 5 guns succeed and 4 fail
C2_MutinyThreshold ==
    /\ Resolved =>
          (turnManagers[Channel].lastMutinySucceeded
              <=> GunsSubmitted >= (GunsOfCrew \div 2) + 1)
    /\ mutinyThreshold(9) = 5
    /\ 5 >= mutinyThreshold(9)
    /\ ~(4 >= mutinyThreshold(9))

\* a resolution that succeeded with exactly the threshold of guns submitted
C2_Witness ==
    /\ Resolved
    /\ turnManagers[Channel].lastMutinySucceeded
    /\ GunsSubmitted = (GunsOfCrew \div 2) + 1
    /\ Cardinality(DOMAIN turnManagers[Channel].mutinyVotes)
          < Cardinality(turnManagers[Channel].mutinyEligibleVoters)

\* C6: a captain, once there is one, is a player of the session who is alive
C6_CaptainAlive ==
    (hasGame /\ games[Channel].captain # NoUser) =>
        /\ games[Channel].captain \in Range(games[Channel].players)
        /\ games[Channel].isAlive[games[Channel].captain]

\* the first player after userId in join order, wrapping, who is alive in g
RECURSIVE NextAliveFrom(_, _, _)
NextAliveFrom(g, index, tries) ==
    LET next == (index % Len(g.players)) + 1
    IN IF tries = 0 THEN NoUser
       ELSE IF g.isAlive[g.players[next]] THEN g.players[next]
       ELSE NextAliveFrom(g, next, tries - 1)

NextAliveAfter(g, userId) ==
    NextAliveFrom(g, FindIndex(g.players, userId) + 1, Len(g.players))

\* C7: when the captain is eliminated and someone is left alive, the command
\* passes to the first alive player that joined after the eliminated captain,
\* wrapping around to the first
C7_SuccessorOfEliminatedCaptain ==
    [][(/\ hasGame
        /\ games[Channel].captain # NoUser
        /\ games[Channel].isAlive[games[Channel].captain]
        /\ ~games'[Channel].isAlive[games[Channel].captain]
        /\ getAlivePlayers(games'[Channel]) # <<>>)
          => games'[Channel].captain
                = NextAliveAfter(games'[Channel], games[Channel].captain)]_vars

\* the guns submitted reach the threshold
Carried == GunsSubmitted >= (GunsOfCrew \div 2) + 1

\* C3: the resolution step runs only while the phase is MUTINY, whatever the order
\* of the timer, the last voter's submission and repeated or late submissions
C3_ResolvesOnlyInMutiny ==
    [][Resolved' => games[Channel].currentPhase = "MUTINY"]_vars

\* the phase edges of the rules; a handler that passes through several phases is
\* allowed the edge from the first to the last of a canonical path (the begin
\* command goes LOBBY, NIGHT, NAVIGATION_SELECTION; the discussion timer goes
\* VOTING, NAVIGATION_SELECTION, MUTINY)
CanonicalEdges ==
    { <<"LOBBY", "NIGHT">>, <<"NIGHT", "NAVIGATION_SELECTION">>,
      <<"LOBBY", "NAVIGATION_SELECTION">>,
      <<"NAVIGATION_SELECTION", "MUTINY">>,
      <<"MUTINY", "NAVIGATION">>, <<"MUTINY", "NAVIGATION_SELECTION">>,
      <<"NAVIGATION", "VOTING">>,
      <<"VOTING", "NAVIGATION_SELECTION">>, <<"VOTING", "MUTINY">> }

\* C4: whenever an event changes the phase, the change is a canonical edge
C4_CanonicalEdgesOnly ==
    [][(hasGame /\ games'[Channel].currentPhase # games[Channel].currentPhase)
          => <<games[Channel].currentPhase, games'[Channel].currentPhase>>
                \in CanonicalEdges]_vars

\* endTurn has found a winner
GameOver == hasTurnManager /\ "gameOver" \in trace

\* C5: once endTurn has found a winner the session is COMPLETED, and the next
\* event changes neither the phase, the turn counter, the captain nor the ship
\* position
C5_HaltsOnWin ==
    [][GameOver
          => /\ games[Channel].status = "COMPLETED"
             /\ games'[Channel].currentPhase = games[Channel].currentPhase
             /\ games'[Channel].currentTurn = games[Channel].currentTurn
             /\ games'[Channel].captain = games[Channel].captain
             /\ games'[Channel].shipPosition = games[Channel].shipPosition]_vars

\* C8: when a new turn begins and a mutiny elected the captain during the turn
\* that ends, the captain stays
C8_ElectedCaptainKept ==
    [][(hasTurnManager /\ games[Channel].currentTurn >= 1
        /\ games'[Channel].currentTurn = games[Channel].currentTurn + 1
        /\ electedInTurn = games[Channel].currentTurn)
          => games'[Channel].captain = games[Channel].captain]_vars

\* C9: a resolution that the guns carry deposes the captain: the new captain is
\* another player of the session, alive, holding as many guns as any alive player
\* other than the deposed captain, and the phase is NAVIGATION_SELECTION
C9_MutinySuccess ==
    [][(Resolved' /\ Carried')
          => LET g == games'[Channel]
                 previousCaptain == games[Channel].captain
             IN /\ g.captain # previousCaptain
                /\ g.captain \in Range(g.players)
                /\ g.isAlive[g.captain]
                /\ \A v \in Range(g.players) :
                      (g.isAlive[v] /\ v # previousCaptain)
                          => g.guns[v] <= g.guns[g.captain]
                /\ g.currentPhase = "NAVIGATION_SELECTION"]_vars

\* a carried mutiny has put one of the voters in command
C9_Witness ==
    /\ Resolved
    /\ Carried
    /\ games[Channel].currentPhase = "NAVIGATION_SELECTION"
    /\ games[Channel].captain \in turnManagers[Channel].mutinyEligibleVoters
    /\ electedInTurn = games[Channel].currentTurn

\* C10: a resolution that the guns do not carry leaves the captain in command and
\* the phase is NAVIGATION
C10_MutinyFailure ==
    [][(Resolved' /\ ~Carried')
          => /\ games'[Channel].captain = games[Channel].captain
             /\ games'[Channel].currentPhase = "NAVIGATION"]_vars

\* every eligible voter has voted and the mutiny has failed
C10_Witness ==
    /\ Resolved
    /\ ~Carried
    /\ DOMAIN turnManagers[Channel].mutinyVotes
          = turnManagers[Channel].mutinyEligibleVoters
    /\ GunsSubmitted > 0
    /\ games[Channel].currentPhase = "NAVIGATION"
    /\ games[Channel].captain \notin turnManagers[Channel].mutinyEligibleVoters

\* C11: a MUTINY round is resolved before another one begins: while the phase is
\* MUTINY, the only handler that enters MUTINY anew is one that has resolved the
\* round in progress (by the last submission or by the timer)
C11_RoundResolvedBeforeNext ==
    [][(hasTurnManager /\ games[Channel].currentPhase = "MUTINY"
        /\ mutinyRounds' = mutinyRounds + 1)
          => "resolveMutiny" \in trace']_vars

\* the submission the step has recorded, if any
Recorded(userId) ==
    /\ userId \in DOMAIN turnManagers'[Channel].mutinyVotes
    /\ userId \in DOMAIN turnManagers[Channel].mutinyVotes
          => turnManagers'[Channel].mutinyVotes[userId]
                # turnManagers[Channel].mutinyVotes[userId]

\* C12: a submission is recorded in the vote map only when its sender is an
\* eligible voter of the round and is not the captain at the time it arrives
C12_OnlyEligibleRecorded ==
    [][hasTurnManager =>
          \A userId \in Users :
              Recorded(userId) =>
                  /\ userId \in turnManagers[Channel].mutinyEligibleVoters
                  /\ userId # games[Channel].captain]_vars

\* the step has not entered a new NAVIGATION round
SameRound == "navigationPhase" \notin trace'

\* C13: within a NAVIGATION round, once the captain's (the lieutenant's) proposal
\* is locked, no step changes the recorded choice or releases the lock of that role
C13_ProposalsWriteOnce ==
    [][(hasTurnManager /\ SameRound) =>
          /\ turnManagers[Channel].captainChoiceLocked =>
                /\ turnManagers'[Channel].captainChoiceLocked
                /\ turnManagers'[Channel].captainNavigationChoice
                      = turnManagers[Channel].captainNavigationChoice
          /\ turnManagers[Channel].lieutenantChoiceLocked =>
                /\ turnManagers'[Channel].lieutenantChoiceLocked
                /\ turnManagers'[Channel].lieutenantNavigationChoice
                      = turnManagers[Channel].lieutenantNavigationChoice]_vars

\* both proposals are locked, on different directions, and the cards are still
\* with the proposers
C13_Witness ==
    /\ hasTurnManager
    /\ games[Channel].currentPhase = "NAVIGATION"
    /\ turnManagers[Channel].captainChoiceLocked
    /\ turnManagers[Channel].lieutenantChoiceLocked
    /\ turnManagers[Channel].captainNavigationChoice = East
    /\ turnManagers[Channel].lieutenantNavigationChoice = South
    /\ games[Channel].captain \in posted.captainCards
    /\ games[Channel].lieutenant \in posted.lieutenantCards

\* the vector the step has added to the ship's position
Moved ==
    << games'[Channel].shipPosition[1] - games[Channel].shipPosition[1],
       games'[Channel].shipPosition[2] - games[Channel].shipPosition[2] >>

\* C14: the ship moves only when both proposers of the round are locked, and by
\* the vector one of them has proposed
C14_CommitUsesLockedProposal ==
    [][(hasTurnManager /\ games'[Channel].shipPosition # games[Channel].shipPosition) =>
          /\ turnManagers[Channel].captainChoiceLocked
          /\ turnManagers[Channel].lieutenantChoiceLocked
          /\ Moved \in { turnManagers[Channel].captainNavigationChoice,
                          turnManagers[Channel].lieutenantNavigationChoice }]_vars

C16_NextTurnOpening ==
    [][(/\ hasTurnManager
        /\ games[Channel].currentPhase = "VOTING"
        /\ "endTurn" \in trace'
        /\ "gameOver" \notin trace') =>
          /\ games'[Channel].currentTurn = games[Channel].currentTurn + 1
          /\ IF games[Channel].lieutenant # NoUser /\ games[Channel].navigator # NoUser
             THEN /\ games'[Channel].currentPhase = "MUTINY"
                  /\ "mutinyPhase" \in trace'
                  /\ games'[Channel].lieutenant = games[Channel].lieutenant
                  /\ games'[Channel].navigator = games[Channel].navigator
             ELSE /\ games'[Channel].currentPhase = "NAVIGATION_SELECTION"
                  /\ "mutinyPhase" \notin trace']_vars

\* a second turn has opened in MUTINY with the team of the first
C16_Witness ==
    /\ hasTurnManager
    /\ games[Channel].currentTurn = 2
    /\ games[Channel].currentPhase = "MUTINY"
    /\ games[Channel].lieutenant # NoUser
    /\ games[Channel].navigator # NoUser
    /\ trace = {"endTurn", "startTurn", "mutinyPhase"}

\* C17: the step that takes the status from WAITING to IN_PROGRESS starts from a
\* lobby of at least five distinct players in turn 0; start leaves the phase
\* NIGHT, the first advance makes it NAVIGATION_SELECTION, and after the step
\* the turn counter is 1 and the captain is one of the players
C17_Begin ==
    [][(hasGame /\ games[Channel].status = "WAITING"
        /\ games'[Channel].status = "IN_PROGRESS") =>
          /\ Len(games[Channel].players) >= 5
          /\ Cardinality(Range(games[Channel].players)) = Len(games[Channel].players)
          /\ games[Channel].currentTurn = 0
          /\ \A random \in RandomStreams(Len(games[Channel].players)) :
                LET started == start(games[Channel], random.picks, random.randomIndex)
                IN /\ started.status = "IN_PROGRESS"
                   /\ started.currentPhase = "NIGHT"
                   /\ nextPhase(started).currentPhase = "NAVIGATION_SELECTION"
          /\ games'[Channel].currentPhase = "NAVIGATION_SELECTION"
          /\ games'[Channel].currentTurn = 1
          /\ games'[Channel].players = games[Channel].players
          /\ games'[Channel].captain \in Range(games[Channel].players)]_vars

\* five players, the game just begun by the host
C17_Witness ==
    /\ hasGame
    /\ Len(games[Channel].players) = 5
    /\ games[Channel].status = "IN_PROGRESS"
    /\ games[Channel].currentPhase = "NAVIGATION_SELECTION"
    /\ games[Channel].currentTurn = 1
    /\ trace = {"startTurn"}

\* C18: addPlayer with an identity already in the session fails and returns the
\* session as it was; in a WAITING session, addPlayer with a new identity succeeds,
\* adds that one player with 3 guns, alive and without a role, and leaves the
\* records of the others as they were
C18_AddPlayer ==
    hasGame =>
        LET g == games[Channel]
        IN \A userId \in Users :
              IF userId \in Range(g.players)
              THEN /\ ~addPlayerOk(g, userId)
                   /\ addPlayer(g, userId) = g
              ELSE g.status = "WAITING" =>
                   LET joined == addPlayer(g, userId)
                   IN /\ addPlayerOk(g, userId)
                      /\ getPlayerCount(joined) = getPlayerCount(g) + 1
                      /\ Range(joined.players) = Range(g.players) \cup {userId}
                      /\ joined.guns[userId] = 3
                      /\ joined.isAlive[userId]
                      /\ joined.role[userId] = "null"
                      /\ \A other \in Range(g.players) :
                            /\ joined.guns[other] = g.guns[other]
                            /\ joined.isAlive[other] = g.isAlive[other]
                            /\ joined.role[other] = g.role[other]

\* a lobby of three, one of them eliminated, with seats left
C18_Witness ==
    /\ hasGame
    /\ games[Channel].status = "WAITING"
    /\ games[Channel].players = <<1, 2, 3>>
    /\ ~games[Channel].isAlive[2]

\* every addPlayer fails once the game has started
JoinsRefused ==
    (hasGame /\ games[Channel].status = "IN_PROGRESS") =>
        \A userId \in 1..(Len(games[Channel].players) + 1) :
            /\ ~addPlayerOk(games[Channel], userId)
            /\ addPlayer(games[Channel], userId) = games[Channel]

\* players join at the end of the list, and only in a WAITING session; from the
\* start on, the list of players and their roles stay as they are
PlayersFrozen ==
    hasGame =>
        /\ SubSeq(games'[Channel].players, 1, Len(games[Channel].players))
              = games[Channel].players
        /\ games'[Channel].players # games[Channel].players =>
                games[Channel].status = "WAITING"
        /\ games[Channel].status = "IN_PROGRESS" =>
              /\ games'[Channel].players = games[Channel].players
              /\ games'[Channel].role = games[Channel].role
              /\ DOMAIN games'[Channel].guns = DOMAIN games[Channel].guns
              /\ DOMAIN games'[Channel].isAlive = DOMAIN games[Channel].isAlive

\* C19: the player set grows only while the status is WAITING; once the status is
\* IN_PROGRESS every addPlayer fails and no event changes the set of players
C19_PlayersFrozen == []JoinsRefused /\ [][PlayersFrozen]_vars

\* a game of five under way, in its second turn, a mutiny just resolved
C19_Witness ==
    /\ hasTurnManager
    /\ games[Channel].status = "IN_PROGRESS"
    /\ games[Channel].currentTurn = 2
    /\ games[Channel].players = <<1, 2, 3, 4, 5>>
    /\ "resolveMutiny" \in trace

\* C20: canStart is true exactly when the session holds at least 5 players and
\* its status is WAITING
C20_CanStart ==
    hasGame =>
        (canStart(games[Channel])
            <=> (getPlayerCount(games[Channel]) >= 5 /\ games[Channel].status = "WAITING"))

\* exactly five players in a WAITING session, which can start
C20_Witness ==
    /\ hasGame
    /\ getPlayerCount(games[Channel]) = 5
    /\ games[Channel].status = "WAITING"
    /\ canStart(games[Channel])

\* beginGame goes ahead for the host of a WAITING session of five or more, and
\* throws for everyone else
BeginRefused ==
    hasGame =>
        \A userId \in Users :
            beginGameOk(userId)
                <=> /\ userId = games[Channel].hostId
                    /\ Len(games[Channel].players) >= 5
                    /\ games[Channel].status = "WAITING"

\* in a session nobody can begin, no step starts the game
NothingBegun ==
    (hasGame /\ \A userId \in Users : ~beginGameOk(userId)) =>
        /\ games'[Channel].status = games[Channel].status
        /\ \A userId \in Range(games[Channel].players) :
              games'[Channel].role[userId] = games[Channel].role[userId]
        /\ DOMAIN turnManagers' = DOMAIN turnManagers
        /\ games[Channel].status = "WAITING" =>
              /\ games'[Channel].currentPhase = games[Channel].currentPhase
              /\ games'[Channel].captain = games[Channel].captain
              /\ games'[Channel].currentTurn = games[Channel].currentTurn

\* C21: beginGame is refused for a caller who is not the host, for a lobby of fewer
\* than 5 players and for a session already started, and then status, phase,
\* roles, captain, turn counter and the registry of turn managers stay as they are
C21_BeginRefused == []BeginRefused /\ [][NothingBegun]_vars

\* a full lobby: the host may begin, the others are refused
C21_Witness ==
    /\ hasGame
    /\ games[Channel].status = "WAITING"
    /\ Len(games[Channel].players) = 5
    /\ beginGameOk(1)
    /\ \A userId \in Users \ {1} : ~beginGameOk(userId)

\* the winner at a position, by the three tests in their order
WinnerAt(x, y) ==
    IF x >= 10 /\ y >= 5 THEN "SAILORS"
    ELSE IF x >= 10 /\ y <= -5 THEN "PIRATES"
    ELSE IF y >= 10 THEN "CULT"
    ELSE "null"

\* the session with the ship at a position
ShipAt(x, y) == [games[Channel] EXCEPT !.shipPosition = <<x, y>>]

\* C22: checkWinCondition depends on the ship position only: SAILORS when x >= 10
\* and y >= 5, else PIRATES when x >= 10 and y <= -5, else CULT when y >= 10, else
\* no winner; (10,5), (10,-5), (0,10) and (9,5) give SAILORS, PIRATES, CULT and
\* no winner; a call leaves the session as it was
C22_CheckWinCondition ==
    hasGame =>
        /\ checkWinCondition(games[Channel])
              = WinnerAt(games[Channel].shipPosition[1], games[Channel].shipPosition[2])
        /\ checkWinCondition(ShipAt(10, 5)) = "SAILORS"
        /\ checkWinCondition(ShipAt(10, -5)) = "PIRATES"
        /\ checkWinCondition(ShipAt(0, 10)) = "CULT"
        /\ checkWinCondition(ShipAt(9, 5)) = "null"
        /\ \A winner \in trace \cap {"SAILORS", "PIRATES", "CULT", "null"} :
              winner = WinnerAt(games[Channel].shipPosition[1],
                                games[Channel].shipPosition[2])

\* the ship where the sailors' and the cult's tests both pass, the winner
\* just computed
C22_Witness ==
    /\ hasGame
    /\ games[Channel].shipPosition = <<10, 10>>
    /\ trace = {"SAILORS"}

\* C23: the result is settled by the movement that takes the ship to a winning
\* position: from then on the ship is not moved and no new turn begins
C23_WinSettledAtMovement ==
    [][(hasTurnManager /\ checkWinCondition(games[Channel]) # "null") =>
          /\ games'[Channel].shipPosition = games[Channel].shipPosition
          /\ games'[Channel].currentTurn = games[Channel].currentTurn]_vars

\* C24: the turn counter is 0 until the game begins and changes by steps of one
\* only: on the first advance, when the game begins, and when endTurn runs in
\* VOTING, after which the phase is no longer VOTING
C24_TurnCounter ==
    [](hasGame /\ games[Channel].status = "WAITING" => games[Channel].currentTurn = 0)
    /\ [][(hasGame /\ games'[Channel].currentTurn # games[Channel].currentTurn) =>
            /\ games'[Channel].currentTurn = games[Channel].currentTurn + 1
            /\ \/ /\ games[Channel].status = "WAITING"
                  /\ games[Channel].currentTurn = 0
                  /\ trace' = {"startTurn"}
               \/ /\ games[Channel].currentPhase = "VOTING"
                  /\ games'[Channel].currentPhase # "VOTING"
                  /\ "endTurn" \in trace']_vars

\* the end_turn action has ended the first VOTING phase of the game while its
\* discussion timer is still pending
C24_Witness ==
    /\ hasTurnManager
    /\ games[Channel].currentTurn = 2
    /\ games[Channel].currentPhase = "MUTINY"
    /\ games[Channel].shipPosition # <<0, 0>>
    /\ votingTimers = 1
    /\ "endTurn" \in trace

\* C25: while a handler of the session is suspended at an await, the next step
\* of the session is the resumption of that handler
C25_RunToCompletion ==
    [][awaiting # {} => \E userId \in awaiting : awaiting' = awaiting \ {userId}]_vars

\* C26: whatever becomes of the notifications, a navigator commit that has moved
\* the ship is followed by the VOTING phase with its timer set, and a failed
\* mutiny that has been resolved is followed by the setup of the NAVIGATION round
C26_FailuresDoNotStall ==
    [][hasTurnManager =>
          /\ "moveShip" \in trace' =>
                /\ games'[Channel].currentPhase = "VOTING"
                /\ "votingPhase" \in trace'
                /\ votingTimers' = votingTimers + 1
          /\ ("resolveMutiny" \in trace' /\ games'[Channel].currentPhase = "NAVIGATION") =>
                /\ "navigationPhase" \in trace'
                /\ games'[Channel].captain \in posted'.captainCards]_vars

\* the three refusals of confirm_navigation_team
ConfirmRefused(userId) ==
    \/ userId # games[Channel].captain
    \/ turnManagers[Channel].selectedLieutenant = NoUser
    \/ turnManagers[Channel].selectedNavigator = NoUser
    \/ turnManagers[Channel].selectedLieutenant = turnManagers[Channel].selectedNavigator

\* C27: confirm_navigation_team leaves lieutenant, navigator and phase alone when
\* the actor is not the captain, when a post has not been selected or when both
\* posts name the same player; otherwise the team is the two selected players
C27_ConfirmNavigationTeam ==
    hasTurnManager =>
        \A userId \in Users :
            LET w == confirmNavigationTeam(World(0), userId)
            IN IF ConfirmRefused(userId)
               THEN /\ w.games[Channel].lieutenant = games[Channel].lieutenant
                    /\ w.games[Channel].navigator = games[Channel].navigator
                    /\ w.games[Channel].currentPhase = games[Channel].currentPhase
               ELSE /\ w.games[Channel].lieutenant = turnManagers[Channel].selectedLieutenant
                    /\ w.games[Channel].navigator = turnManagers[Channel].selectedNavigator

\* the captain has confirmed two different players while an earlier captain
\* still has the menu open
C27_Witness ==
    /\ hasTurnManager
    /\ "confirmNavigationTeam" \in trace
    /\ games[Channel].lieutenant = turnManagers[Channel].selectedLieutenant
    /\ games[Channel].navigator = turnManagers[Channel].selectedNavigator
    /\ games[Channel].lieutenant # games[Channel].navigator
    /\ \E userId \in posted.menus : userId # games[Channel].captain

\* C28: whenever a lieutenant and a navigator are set, captain, lieutenant and
\* navigator are three different players
C28_ThreeDistinctOfficers ==
    (/\ hasTurnManager
     /\ games[Channel].lieutenant # NoUser
     /\ games[Channel].navigator # NoUser) =>
        /\ games[Channel].captain # games[Channel].lieutenant
        /\ games[Channel].captain # games[Channel].navigator
        /\ games[Channel].lieutenant # games[Channel].navigator

\* the place of a status in the order WAITING, IN_PROGRESS, COMPLETED
StatusRank(status) ==
    CASE status = "WAITING" -> 0
      [] status = "IN_PROGRESS" -> 1
      [] status = "COMPLETED" -> 2

\* a session that has left WAITING cannot be started again
StartedOnce ==
    (hasGame /\ games[Channel].status # "WAITING") =>
        /\ ~canStart(games[Channel])
        /\ \A userId \in Users : ~beginGameOk(userId)

\* the status stays or moves one place forward, and leaves WAITING only by a start
StatusForward ==
    hasGame =>
        /\ hasGame'
        /\ StatusRank(games'[Channel].status) - StatusRank(games[Channel].status) \in {0, 1}
        /\ games'[Channel].status # games[Channel].status =>
              /\ games[Channel].status = "WAITING"
              /\ \E userId \in Users : beginGameOk(userId)
              /\ \E random \in RandomStreams(Len(games[Channel].players)) :
                    games'[Channel].role
                        = start(games[Channel], random.picks, random.randomIndex).role

\* C29: the status only moves forward along WAITING, IN_PROGRESS, COMPLETED and
\* never goes back, and a session is started once: after the start has taken it
\* out of WAITING no further start goes ahead
C29_StatusForward == []StartedOnce /\ [][StatusForward]_vars

\* a started session of five in its second turn
C29_Witness ==
    /\ hasTurnManager
    /\ games[Channel].status = "IN_PROGRESS"
    /\ Len(games[Channel].players) >= MinPlayers
    /\ games[Channel].currentTurn = 2
    /\ "endTurn" \in trace

\* nobody has a role before the start; from the start on everybody has one, and
\* the one CULT_LEADER is the player recorded as cult leader
RolesDealt ==
    hasGame =>
        LET g == games[Channel]
        IN IF g.status = "WAITING"
           THEN /\ \A u \in Range(g.players) : g.role[u] = "null"
                /\ g.cultLeader = NoUser
           ELSE /\ \A u \in Range(g.players) :
                      g.role[u] \in {"CULT_LEADER", "PIRATE", "CULTIST", "SAILOR"}
                /\ {u \in Range(g.players) : g.role[u] = "CULT_LEADER"} = {g.cultLeader}

\* a role is given in the step of the start and is kept from then on
RolesKept ==
    hasGame =>
        \A u \in Range(games[Channel].players) :
            /\ games[Channel].role[u] # "null" =>
                  games'[Channel].role[u] = games[Channel].role[u]
            /\ games'[Channel].role[u] # games[Channel].role[u] =>
                  /\ games[Channel].status = "WAITING"
                  /\ games'[Channel].status = "IN_PROGRESS"
        /\ games[Channel].cultLeader # NoUser =>
              games'[Channel].cultLeader = games[Channel].cultLeader

\* C30: every player's role goes from null to a role once, at the start, and never
\* changes afterwards; once roles are dealt exactly one player is CULT_LEADER and
\* that player is the cult leader recorded on the session
C30_RolesOnce == []RolesDealt /\ [][RolesKept]_vars

\* a shuffled deal, two turns on: the leader is not the first to have joined
C30_Witness ==
    /\ hasTurnManager
    /\ games[Channel].currentTurn = 2
    /\ games[Channel].cultLeader # games[Channel].players[1]
    /\ games[Channel].role[games[Channel].cultLeader] = "CULT_LEADER"
    /\ "endTurn" \in trace

\* the round as mutinyPhase leaves it: no votes, and the alive players other
\* than the captain as voters
FreshRound ==
    /\ turnManagers'[Channel].mutinyVotes = <<>>
    /\ turnManagers'[Channel].mutinyEligibleVoters
          = {u \in Range(getAlivePlayers(games'[Channel])) : u # games'[Channel].captain}

\* C31: every entry into the MUTINY phase runs mutinyPhase and leaves an empty vote
\* map and, as eligible voters, exactly the alive players other than the captain
C31_RoundReplaced ==
    [][hasTurnManager' =>
          /\ "mutinyPhase" \in trace' => (games'[Channel].currentPhase = "MUTINY" /\ FreshRound)
          /\ (games'[Channel].currentPhase = "MUTINY"
               /\ (~hasTurnManager \/ games[Channel].currentPhase # "MUTINY")) =>
                 "mutinyPhase" \in trace']_vars

\* the entry that follows the confirmation of an elected captain: second round of
\* the turn, the new captain is not among the voters
C31_Witness ==
    /\ hasTurnManager
    /\ "mutinyPhase" \in trace
    /\ electedInTurn = games[Channel].currentTurn
    /\ mutinyRounds >= 2
    /\ turnManagers[Channel].mutinyVotes = <<>>
    /\ turnManagers[Channel].mutinyEligibleVoters
          = Range(games[Channel].players) \ {games[Channel].captain}

\* C32: a resolution, successful or not, leaves no vote and no eligible voter of
\* the resolved round behind
C32_RoundDiscarded ==
    [][(hasTurnManager /\ "resolveMutiny" \in trace') =>
          /\ turnManagers'[Channel].mutinyVotes = <<>>
          /\ turnManagers'[Channel].mutinyEligibleVoters = {}]_vars

\* C33: a mutiny timer is pending only in the MUTINY phase that set it: the eager
\* resolution and every other way out of the phase cancel it, so the timer never
\* fires in another phase
C33_TimerWithinMutiny ==
    (hasTurnManager /\ mutinyTimer) =>
        /\ games[Channel].currentPhase = "MUTINY"
        /\ turnManagers[Channel].mutinyTimeoutId

\* every recorded vote is a whole number from 0 to the guns its voter holds
VotesWithinGuns ==
    hasTurnManager =>
        \A userId \in DOMAIN turnManagers[Channel].mutinyVotes :
            /\ userId \in Range(games[Channel].players)
            /\ turnManagers[Channel].mutinyVotes[userId] \in 0..games[Channel].guns[userId]

\* a resolution counts no more guns than the eligible crew holds
TallyWithinCrew ==
    (hasTurnManager /\ "resolveMutiny" \in trace') =>
        totalGunsUsed(turnManagers'[Channel])
            <= totalCrewGuns(games'[Channel], turnManagers'[Channel])

\* C34: every recorded submission lies between 0 and its voter's gun count, so
\* at a resolution totalGunsUsed does not exceed totalCrewGuns
C34_VotesBounded == []VotesWithinGuns /\ [][TallyWithinCrew]_vars

\* C35: in every state whose phase is MUTINY or NAVIGATION a lieutenant and a
\* navigator have been chosen
C35_TeamBeforeMutiny ==
    (hasTurnManager /\ games[Channel].currentPhase \in {"MUTINY", "NAVIGATION"}) =>
        /\ games[Channel].lieutenant # NoUser
        /\ games[Channel].navigator # NoUser

\* C36: every accepted confirm_navigation_team sets the phase to MUTINY and opens
\* a fresh round, and after a successful mutiny the game reaches NAVIGATION only
\* from MUTINY: the elected captain's confirmation is followed by another round
C36_ConfirmThenMutiny ==
    [][hasTurnManager =>
          /\ "confirmNavigationTeam" \in trace' =>
                /\ games'[Channel].currentPhase = "MUTINY"
                /\ "mutinyPhase" \in trace'
                /\ turnManagers'[Channel].mutinyVotes = <<>>
                /\ ~turnManagers'[Channel].lastMutinySucceeded
          /\ (games[Channel].currentPhase = "NAVIGATION_SELECTION"
               /\ games'[Channel].currentPhase # "NAVIGATION_SELECTION") =>
                games'[Channel].currentPhase = "MUTINY"]_vars

\* the alive player who takes the command at a rotation: the next alive player
\* in join order after the captain, the first one when there is none after the
\* captain or when the captain is not among the alive
NextInCommand(g) ==
    LET alive == getAlivePlayers(g)
        after == {i \in 1..Len(alive) :
                     \E j \in 1..(i - 1) : alive[j] = g.captain}
    IN IF after = {} THEN alive[1]
       ELSE alive[CHOOSE i \in after : \A j \in after : i <= j]

OneMoveInFirstTurn ==
    (hasTurnManager /\ games[Channel].currentTurn = 1) =>
        Abs(games[Channel].shipPosition[1]) + Abs(games[Channel].shipPosition[2]) <= 1

\* the position changes in NAVIGATION only, by one of the four unit vectors, and
\* not in the step that counts a turn
MovesInNavigation ==
    (hasTurnManager /\ games'[Channel].shipPosition # games[Channel].shipPosition) =>
        /\ games[Channel].currentPhase = "NAVIGATION"
        /\ Moved \in Directions
        /\ games'[Channel].currentTurn = games[Channel].currentTurn

\* C38: between two increments of the turn counter the ship moves at most once,
\* by one of the four unit vectors, and it moves in the NAVIGATION phase only
C38_OneMovePerTurn == []OneMoveInFirstTurn /\ [][MovesInNavigation]_vars

\* every player of the session holds the guns dealt at joining
GunsAsDealt ==
    hasGame => \A u \in Range(games[Channel].players) : games[Channel].guns[u] = DefaultGuns

\* no step changes the guns of a player
GunsKept ==
    hasGame =>
        \A u \in Range(games[Channel].players) :
            games'[Channel].guns[u] = games[Channel].guns[u]

\* C39: no event of the turn machinery changes a gun count: committing guns to a
\* mutiny and resolving it, with either outcome, leave every player with 3 guns
C39_GunsUnchanged == []GunsAsDealt /\ [][GunsKept]_vars

\* a mutiny carried by committed guns has just been resolved and a captain elected
C39_Witness ==
    /\ hasTurnManager
    /\ "resolveMutiny" \in trace
    /\ electedInTurn = games[Channel].currentTurn
    /\ turnManagers[Channel].lastMutinySucceeded
    /\ \E u \in DOMAIN turnManagers[Channel].mutinyVotes :
          turnManagers[Channel].mutinyVotes[u] = DefaultGuns
    /\ \A u \in Range(games[Channel].players) : games[Channel].guns[u] = DefaultGuns

\* a controller belongs to a game, and the host of a game is one of its players
OneGameOneController ==
    /\ DOMAIN turnManagers \subseteq DOMAIN games
    /\ DOMAIN games \subseteq {Channel}
    /\ hasGame => games[Channel].hostId \in Range(games[Channel].players)
    /\ hasTurnManager => games[Channel].status = "IN_PROGRESS"

\* the game of a channel is never replaced, and while the channel has no controller
\* nothing but the lobby changes: no timer, no message of a phase, no move
GameKept ==
    /\ hasGame =>
          /\ hasGame'
          /\ games'[Channel].hostId = games[Channel].hostId
          /\ \A i \in 1..Len(games[Channel].players) :
                /\ i <= Len(games'[Channel].players)
                /\ games'[Channel].players[i] = games[Channel].players[i]
    /\ (~hasTurnManager /\ ~hasTurnManager') =>
          /\ mutinyTimer' = mutinyTimer
          /\ votingTimers' = votingTimers
          /\ posted' = posted
          /\ hasGame =>
                /\ games'[Channel].currentPhase = games[Channel].currentPhase
                /\ games'[Channel].currentTurn = games[Channel].currentTurn
                /\ games'[Channel].shipPosition = games[Channel].shipPosition
                /\ games'[Channel].captain = games[Channel].captain

====
